---- MODULE Spec2Model ----
(***************************************************************************)
(* Reading-list page of the research tool: the today / this-week /        *)
(* upcoming filters that ReadingListPage evaluates on every render, and   *)
(* the recurrence contract they are compared with.                        *)
(*                                                                         *)
(* Time.  A JavaScript Date is an instant.  The model counts instants in  *)
(* ticks of local time, TicksPerDay ticks to a calendar day, in a zone    *)
(* with a fixed offset (every local day has the same length).  Tick t lies *)
(* on day number t \div TicksPerDay, counted from 1970-01-01.              *)
(***************************************************************************)
EXTENDS Integers, Sequences, FiniteSets, TLC

TicksPerDay == 2
MaxTicksPerPass == 1

VARIABLES papers, now, pc, idx, ticks, calls,
          todaysPapers, thisWeeksPapers, upcomingPapers,
          readingList, cache, selectedDate, calendarGrid, prev,
          isLoading, tasks, server, paperToDelete, isDeleting, newTopic,
          dialog, pressed

vars == <<papers, now, pc, idx, ticks, calls,
          todaysPapers, thisWeeksPapers, upcomingPapers,
          readingList, cache, selectedDate, calendarGrid, prev,
          isLoading, tasks, server, paperToDelete, isDeleting, newTopic,
          dialog, pressed>>

\* the state of the asynchronous handlers of the page and of the dialog:
\* the calls that run (tasks) and the rows of the database (server)
handlerVars == <<isLoading, tasks, server, paperToDelete, isDeleting,
                 newTopic, dialog>>

\* the page state that no step of a render assigns, the record of the
\* render before, and the record of the month buttons pressed
otherVars == <<readingList, cache, selectedDate, prev, handlerVars, pressed>>

(***************************************************************************)
(* Calendar arithmetic of the Date object (proleptic Gregorian calendar). *)
(***************************************************************************)
\* Day number of year y, 0-based month index, day of month 1
DayFromYearMonth(y, month) ==
    LET yy  == IF month <= 1 THEN y - 1 ELSE y
        era == yy \div 400
        yoe == yy - era * 400
        mp  == IF month >= 2 THEN month - 2 ELSE month + 10
        doy == (153 * mp + 2) \div 5
        doe == yoe * 365 + yoe \div 4 - yoe \div 100 + doy
    IN era * 146097 + doe - 719468

\* MakeDay of the Date constructor and of setMonth/setDate: a month index
\* outside 0..11 carries into the year, a day outside the month carries
\* into the neighbouring months.
MakeDay(y, month, d) ==
    DayFromYearMonth(y + month \div 12, month % 12) + d - 1

\* Year, 0-based month and day of month of a day number
Civil(z) ==
    LET zz  == z + 719468
        era == zz \div 146097
        doe == zz - era * 146097
        yoe == (doe - doe \div 1460 + doe \div 36524 - doe \div 146096) \div 365
        doy == doe - (365 * yoe + yoe \div 4 - yoe \div 100)
        mp  == (5 * doy + 2) \div 153
        d   == doy - (153 * mp + 2) \div 5 + 1
        m   == IF mp < 10 THEN mp + 2 ELSE mp - 10
    IN [year  |-> yoe + era * 400 + (IF m <= 1 THEN 1 ELSE 0),
        month |-> m,
        date  |-> d]

DayOf(t) == t \div TicksPerDay
TimeOfDay(t) == t % TicksPerDay
getFullYear(t) == Civil(DayOf(t)).year
getMonth(t) == Civil(DayOf(t)).month
getDate(t) == Civil(DayOf(t)).date
\* 0 = Sunday; 1970-01-01 was a Thursday
getDay(t) == (DayOf(t) + 4) % 7

\* new Date(year, monthIndex, day): local midnight
NewDate(y, month, d) == MakeDay(y, month, d) * TicksPerDay

\* FormatYMD with a pattern that drops the day of the month
FormatYM(t) == <<getFullYear(t), getMonth(t) + 1>>

\* format(date, 'yyyy-MM-dd')
FormatYMD(t) == <<getFullYear(t), getMonth(t) + 1, getDate(t)>>

\* StartOfDay that goes back to the start of the week
StartOfDayInWeek(t) == (DayOf(t) - getDay(t)) * TicksPerDay

\* date.setHours(0, 0, 0, 0)
StartOfDay(t) == DayOf(t) * TicksPerDay

\* date.setDate(date.getDate() + n)
AddDays(t, n) ==
    MakeDay(getFullYear(t), getMonth(t), getDate(t) + n) * TicksPerDay
        + TimeOfDay(t)

\* date.setMonth(date.getMonth() + n)
AddMonths(t, n) ==
    MakeDay(getFullYear(t), getMonth(t) + n, getDate(t)) * TicksPerDay
        + TimeOfDay(t)

\* startOfWeek with weekStartsOn = 1 (Monday)
startOfWeekMonday(t) == (DayOf(t) - ((getDay(t) + 6) % 7)) * TicksPerDay

\* date-fns startOfWeek(date) with the default weekStartsOn = 0
startOfWeek(t) == (DayOf(t) - getDay(t)) * TicksPerDay

\* date-fns endOfWeek(date): the last instant of the Saturday
endOfWeek(t) == (DayOf(t) - getDay(t) + 6) * TicksPerDay + (TicksPerDay - 1)

\* date-fns isWithinInterval(date, {start, end}): both ends inclusive
isWithinInterval(t, start, end) == start <= t /\ t <= end

\* Math.floor((a - b) / (1000 * 60 * 60 * 24))
DaysBetween(a, b) == (a - b) \div TicksPerDay

\* The JavaScript remainder a % n (n > 0): the sign follows the dividend
JsRem(a, n) == IF a >= 0 THEN a % n ELSE 0 - ((0 - a) % n)

(***************************************************************************)
(* Papers.  scheduled_date is an ISO-8601 timestamp string or is absent;  *)
(* repeat is one of the four tags or is absent.                           *)
(***************************************************************************)
NoDate == [kind |-> "absent"]

\* a non-empty string that does not denote a date
BadString == [kind |-> "bad"]

\* the string "yyyy-mm-ddT..." with a 1-based month and a time of day in ticks
IsoString(y, m, d, tod) ==
    [kind |-> "iso", year |-> y, month |-> m, date |-> d, tod |-> tod]

\* new Date(paper.scheduled_date)
ParseDate(str) ==
    MakeDay(str.year, str.month - 1, str.date) * TicksPerDay + str.tod

\* NoScheduledDate that also rejects a paper without an estimated time
NoScheduleOrEstimate(paper) ==
    paper.scheduled_date.kind = "absent" \/ paper.estimated_time = <<>>

\* !paper.scheduled_date
NoScheduledDate(paper) == paper.scheduled_date.kind = "absent"

\* paper.repeat as a condition: every tag is a non-empty string
HasRepeat(paper) == paper.repeat # "absent"

NoOcc == <<>>

\* a callback returns normally (NoErr) or throws
NoErr == "none"
Throw(e) == [err |-> e, ret |-> FALSE, occ |-> NoOcc]

\* new Date(str) is an Invalid Date (its time value is NaN)
IsInvalidDate(str) == str.kind = "bad"

\* The callback of papers.filter for todaysPapers, evaluated at clock
TodaysPapersFilter(paper, clock) ==
    IF NoScheduledDate(paper) THEN [err |-> NoErr, ret |-> FALSE, occ |-> NoOcc]
    \* format(scheduledDate, ...) of an Invalid Date throws
    ELSE IF IsInvalidDate(paper.scheduled_date) THEN Throw("RangeError")
    ELSE
      LET scheduledDate == ParseDate(paper.scheduled_date)
          today == clock
          daysSinceScheduled == DaysBetween(today, scheduledDate)
      IN IF FormatYMD(scheduledDate) = FormatYMD(today)
           THEN [err |-> NoErr, ret |-> TRUE, occ |-> NoOcc]
         ELSE IF HasRepeat(paper)
           THEN CASE paper.repeat = "daily" -> [err |-> NoErr, ret |-> TRUE, occ |-> NoOcc]
                  [] paper.repeat = "weekly" ->
                       [err |-> NoErr, ret |-> JsRem(daysSinceScheduled, 7) = 0, occ |-> NoOcc]
                  [] paper.repeat = "monthly" ->
                       [err |-> NoErr, ret |-> getDate(scheduledDate) = getDate(today),
                        occ |-> NoOcc]
                  [] OTHER -> [err |-> NoErr, ret |-> FALSE, occ |-> NoOcc]
         ELSE [err |-> NoErr, ret |-> FALSE, occ |-> NoOcc]

\* nextOccurrence of the weekly case of thisWeeksPapers
WeeklyNextOccurrence(scheduledDate, weekStart) ==
    LET daysSinceScheduled == DaysBetween(weekStart, scheduledDate)
        daysToAdd == 7 - JsRem(daysSinceScheduled, 7)
    IN AddDays(weekStart, daysToAdd)

\* monthlyDate of the monthly case of thisWeeksPapers
MonthlyDate(scheduledDate, today) ==
    NewDate(getFullYear(today), getMonth(today), getDate(scheduledDate))

\* ThisWeeksPapersFilter whose daily case tests the scheduled date itself
\* against the week, as for a paper that does not repeat
ThisWeeksPapersFilterDailyOnce(paper, clock) ==
    IF NoScheduledDate(paper) THEN [err |-> NoErr, ret |-> FALSE, occ |-> NoOcc]
    ELSE IF IsInvalidDate(paper.scheduled_date)
      THEN [err |-> NoErr, ret |-> FALSE, occ |-> NoOcc]
    ELSE
      LET scheduledDate == ParseDate(paper.scheduled_date)
          today == clock
          weekStart == startOfWeek(today)
          weekEnd == endOfWeek(today)
      IN IF ~HasRepeat(paper) \/ paper.repeat = "daily"
           THEN [err |-> NoErr, ret |-> isWithinInterval(scheduledDate, weekStart, weekEnd),
                 occ |-> NoOcc]
         ELSE CASE paper.repeat = "weekly" ->
                     LET nextOccurrence ==
                             WeeklyNextOccurrence(scheduledDate, weekStart)
                     IN [err |-> NoErr, ret |-> isWithinInterval(nextOccurrence,
                                                  weekStart, weekEnd),
                         occ |-> <<nextOccurrence>>]
                [] paper.repeat = "monthly" ->
                     LET monthlyDate == MonthlyDate(scheduledDate, today)
                     IN [err |-> NoErr, ret |-> isWithinInterval(monthlyDate,
                                                  weekStart, weekEnd),
                         occ |-> <<monthlyDate>>]
                [] OTHER -> [err |-> NoErr, ret |-> FALSE, occ |-> NoOcc]

\* The callback of papers.filter for thisWeeksPapers, evaluated at clock
ThisWeeksPapersFilter(paper, clock) ==
    IF NoScheduledDate(paper) THEN [err |-> NoErr, ret |-> FALSE, occ |-> NoOcc]
    \* every comparison with an Invalid Date is false: only the daily case,
    \* which compares nothing, returns true
    ELSE IF IsInvalidDate(paper.scheduled_date)
      THEN [err |-> NoErr, ret |-> paper.repeat = "daily", occ |-> NoOcc]
    ELSE
      LET scheduledDate == ParseDate(paper.scheduled_date)
          today == clock
          weekStart == startOfWeek(today)
          weekEnd == endOfWeek(today)
      IN IF ~HasRepeat(paper)
           THEN [err |-> NoErr, ret |-> isWithinInterval(scheduledDate, weekStart, weekEnd),
                 occ |-> NoOcc]
         ELSE CASE paper.repeat = "daily" -> [err |-> NoErr, ret |-> TRUE, occ |-> NoOcc]
                [] paper.repeat = "weekly" ->
                     LET nextOccurrence ==
                             WeeklyNextOccurrence(scheduledDate, weekStart)
                     IN [err |-> NoErr, ret |-> isWithinInterval(nextOccurrence,
                                                  weekStart, weekEnd),
                         occ |-> <<nextOccurrence>>]
                [] paper.repeat = "monthly" ->
                     LET monthlyDate == MonthlyDate(scheduledDate, today)
                     IN [err |-> NoErr, ret |-> isWithinInterval(monthlyDate,
                                                  weekStart, weekEnd),
                         occ |-> <<monthlyDate>>]
                [] OTHER -> [err |-> NoErr, ret |-> FALSE, occ |-> NoOcc]

\* nextOccurrence of the monthly case of upcomingPapers (today is midnight)
MonthlyNextOccurrence(scheduledDate, today) ==
    LET nextOccurrence ==
            NewDate(getFullYear(today), getMonth(today), getDate(scheduledDate))
    IN IF nextOccurrence < today THEN AddMonths(nextOccurrence, 1)
       ELSE nextOccurrence

\* The callback of papers.filter for upcomingPapers, evaluated at clock
UpcomingPapersFilter(p, clock) ==
    IF NoScheduledDate(p) THEN [err |-> NoErr, ret |-> FALSE, occ |-> NoOcc]
    \* every comparison with an Invalid Date is false: only the daily case,
    \* which compares nothing, returns true
    ELSE IF IsInvalidDate(p.scheduled_date)
      THEN [err |-> NoErr, ret |-> p.repeat = "daily", occ |-> NoOcc]
    ELSE
      LET scheduledDate == ParseDate(p.scheduled_date)
          today == StartOfDay(clock)
      IN IF scheduledDate < today THEN [err |-> NoErr, ret |-> FALSE, occ |-> NoOcc]
         ELSE IF HasRepeat(p)
           THEN CASE p.repeat = "daily" -> [err |-> NoErr, ret |-> TRUE, occ |-> NoOcc]
                  [] p.repeat = "weekly" ->
                       LET daysSinceScheduled ==
                               DaysBetween(today, scheduledDate)
                           daysUntilNext == 7 - JsRem(daysSinceScheduled, 7)
                       IN [err |-> NoErr, ret |-> daysUntilNext > 0, occ |-> NoOcc]
                  [] p.repeat = "monthly" ->
                       LET nextOccurrence ==
                               MonthlyNextOccurrence(scheduledDate, today)
                       IN [err |-> NoErr, ret |-> nextOccurrence >= today,
                           occ |-> <<nextOccurrence>>]
                  [] OTHER -> [err |-> NoErr, ret |-> FALSE, occ |-> NoOcc]
         ELSE [err |-> NoErr, ret |-> scheduledDate >= today, occ |-> NoOcc]

(***************************************************************************)
(* The inputs: one scheduled paper, and the wall clock at the render.     *)
(***************************************************************************)
Repeats == {"absent", "none", "daily", "weekly", "monthly"}

\* Anchor dates (year, month, day): a month end, the day before a month
\* end, a Monday, a Sunday, a Wednesday, and a 31st after a short month
AnchorDates ==
    { <<2024, 1, 31>>, <<2024, 3, 4>>, <<2024, 3, 17>>,
      <<2024, 3, 20>>, <<2024, 3, 30>>, <<2024, 3, 31>> }

\* estimated_time is a number of minutes or is absent
NoTime == <<>>

PaperInputs ==
    { [id |-> 1,
       scheduled_date |-> IsoString(a[1], a[2], a[3], tod),
       repeat |-> r,
       estimated_time |-> NoTime] :
         a \in AnchorDates, tod \in 0 .. TicksPerDay - 1, r \in Repeats }
      \cup { [id |-> 1, scheduled_date |-> NoDate, repeat |-> "absent",
              estimated_time |-> NoTime] }

\* A second paper of the list, when there is one
SecondPapers ==
    { [id |-> 2, scheduled_date |-> IsoString(2024, 3, 20, 0), repeat |-> r,
       estimated_time |-> NoTime] :
         r \in {"absent", "daily"} }

\* Rows that the type Paper does not allow but the database can hold: a
\* repeat tag outside the four, and a scheduled_date that is not a date
UnvalidatedPapers ==
    { [id |-> 1, scheduled_date |-> IsoString(2024, 3, 20, 0),
       repeat |-> "yearly", estimated_time |-> NoTime] }
      \cup { [id |-> 1, scheduled_date |-> BadString, repeat |-> r,
              estimated_time |-> NoTime] : r \in {"absent", "daily"} }

\* The same paper under another id and with an estimated time
Twin(p) == [p EXCEPT !.id = 2, !.estimated_time = <<30>>]

\* readingList row of a paper (preloadData copies these fields to the paper)
ReadingListItem(p) ==
    [paper_id |-> p.id, scheduled_date |-> p.scheduled_date,
     estimated_time |-> p.estimated_time, repeat |-> p.repeat]

\* cache: both keys are missing after loadData(true)
CacheKeys == {"PAPERS", "READING_LIST"}
EmptyCache == [k \in CacheKeys |-> <<>>]

\* no render recorded yet
NoPrev == <<>>

\* paperToDelete = null
NoPaper == <<>>

\* a string is the sequence of its characters; ""
EmptyString == <<>>

\* AddPaperDialog, closed and with its form empty
\* (pc: where handleSubmit waits, form: the fields as the running
\* handleSubmit sees them, those of the render it was called in; for the
\* claims, posted: the requests
\* sent to /api/papers, closed and refreshed: the calls of
\* onOpenChange(false) and of router.refresh(), submits: the calls of
\* handleSubmit)
ClosedDialog ==
    [open |-> FALSE, isLoading |-> FALSE, title |-> "", file |-> FALSE,
     url |-> "", activeTab |-> "upload", pc |-> "idle", session |-> <<>>,
     response |-> "", form |-> <<>>, posted |-> <<>>, closed |-> 0,
     refreshed |-> 0, submits |-> 0]

\* No handler of the page runs: the data is loaded and shown
NoHandlerRuns ==
    /\ isLoading = FALSE
    /\ tasks = <<>>
    /\ server = [papers |-> papers, readingList |-> readingList]
    /\ paperToDelete = NoPaper
    /\ isDeleting = FALSE
    /\ newTopic = EmptyString
    /\ dialog = ClosedDialog
    /\ pressed = <<>>

\* The clock at the start of a render: 2024-01-28 .. 2024-04-06
FirstClock == NewDate(2024, 0, 28)
LastClock == NewDate(2024, 3, 7) - 1

\* The clock at the start of a render of a list of two: 2024-03-10 ..
FirstPairClock == NewDate(2024, 2, 10)

\* selectedDate is the clock at the mount of the page: Init is the page
\* mounted at FirstClock, with its data loaded, at any later time
Init ==
    /\ \/ /\ papers \in { <<p>> : p \in PaperInputs \cup UnvalidatedPapers }
          /\ now \in FirstClock .. LastClock
       \/ /\ papers \in { <<p, q>> : p \in PaperInputs, q \in SecondPapers }
                       \cup { <<p, Twin(p)>> : p \in PaperInputs }
          /\ now \in FirstPairClock .. LastClock
    /\ pc = "idle"
    /\ idx = 1
    /\ ticks = 0
    /\ calls = <<>>
    /\ todaysPapers = <<>>
    /\ thisWeeksPapers = <<>>
    /\ upcomingPapers = <<>>
    /\ readingList = [i \in DOMAIN papers |-> ReadingListItem(papers[i])]
    /\ cache = EmptyCache
    /\ selectedDate = FirstClock
    /\ calendarGrid = <<>>
    /\ prev = NoPrev
    /\ NoHandlerRuns

\* The wall clock advances while the component function runs
Tick ==
    /\ pc \in {"today", "week", "upcoming"}
    /\ ticks < MaxTicksPerPass
    /\ now <= LastClock
    /\ now' = now + 1
    /\ ticks' = ticks + 1
    /\ UNCHANGED <<papers, pc, idx, calls, calendarGrid, otherVars,
                   todaysPapers, thisWeeksPapers, upcomingPapers>>

\* React calls the component function: the three filters run from scratch
Render ==
    /\ pc \in {"idle", "done"}
    /\ prev = NoPrev
    /\ pc' = (IF Len(papers) = 0 THEN "done" ELSE "today")
    /\ idx' = 1
    /\ ticks' = 0
    /\ calls' = <<>>
    /\ todaysPapers' = <<>>
    /\ thisWeeksPapers' = <<>>
    /\ upcomingPapers' = <<>>
    /\ calendarGrid' = <<>>
    /\ UNCHANGED <<papers, now, otherVars>>

\* A second render, after a finished one whose callbacks are kept in prev
\* for comparison; no render is followed after the compared pair
Rerender ==
    /\ pc = "done"
    /\ prev = NoPrev
    /\ prev' = <<calls>>
    /\ pc' = (IF Len(papers) = 0 THEN "done" ELSE "today")
    /\ idx' = 1
    /\ ticks' = 0
    /\ calls' = <<>>
    /\ todaysPapers' = <<>>
    /\ thisWeeksPapers' = <<>>
    /\ upcomingPapers' = <<>>
    /\ calendarGrid' = <<>>
    /\ UNCHANGED <<papers, now, readingList, cache, selectedDate,
                   handlerVars, pressed>>

\* What one callback did: its paper, the wall clock when it ran (its today
\* when it reads one), the value it returned and the occurrence date it
\* computed (nextOccurrence, monthlyDate), if any
Call(filter, paper, clock, r) ==
    [filter |-> filter, paper |-> paper, clock |-> clock,
     ret |-> r.ret, occ |-> r.occ, err |-> r.err]

Keep(bucket, paper, r) == IF r.ret THEN Append(bucket, paper) ELSE bucket

\* Where the render goes after a callback: an exception leaves the component
\* function, otherwise the filter goes on and the next stage follows it
After(r, stage, nextStage) ==
    IF r.err # NoErr THEN [pc |-> "failed", idx |-> idx]
    ELSE IF idx < Len(papers) THEN [pc |-> stage, idx |-> idx + 1]
    ELSE [pc |-> nextStage, idx |-> 1]

\* One callback of papers.filter(...) for todaysPapers
TodayStep ==
    /\ pc = "today"
    /\ LET paper == papers[idx]
           r == TodaysPapersFilter(paper, now)
       IN /\ calls' = Append(calls, Call("today", paper, now, r))
          /\ todaysPapers' = Keep(todaysPapers, paper, r)
          /\ pc' = After(r, "today", "week").pc
          /\ idx' = After(r, "today", "week").idx
    /\ UNCHANGED <<papers, now, ticks, calendarGrid, otherVars,
                   thisWeeksPapers, upcomingPapers>>

\* One callback of papers.filter(...) for thisWeeksPapers
WeekStep ==
    /\ pc = "week"
    /\ LET paper == papers[idx]
           r == ThisWeeksPapersFilter(paper, now)
       IN /\ calls' = Append(calls, Call("week", paper, now, r))
          /\ thisWeeksPapers' = Keep(thisWeeksPapers, paper, r)
          /\ pc' = After(r, "week", "upcoming").pc
          /\ idx' = After(r, "week", "upcoming").idx
    /\ UNCHANGED <<papers, now, ticks, calendarGrid, otherVars,
                   todaysPapers, upcomingPapers>>

\* UpcomingStep with a callback that resets the time of its paper's
\* scheduled_date to midnight in place
UpcomingStepWriting ==
    /\ pc = "upcoming"
    /\ LET p == papers[idx]
           r == UpcomingPapersFilter(p, now)
       IN /\ calls' = Append(calls, Call("upcoming", p, now, r))
          /\ upcomingPapers' = Keep(upcomingPapers, p, r)
          /\ pc' = After(r, "upcoming", "done").pc
          /\ idx' = After(r, "upcoming", "done").idx
          /\ papers' = [papers EXCEPT ![idx].scheduled_date =
                           IF @.kind = "iso" THEN [@ EXCEPT !.tod = 0] ELSE @]
    /\ UNCHANGED <<now, ticks, calendarGrid, otherVars,
                   todaysPapers, thisWeeksPapers>>

\* One callback of papers.filter(...) for upcomingPapers
UpcomingStep ==
    /\ pc = "upcoming"
    /\ LET p == papers[idx]
           r == UpcomingPapersFilter(p, now)
       IN /\ calls' = Append(calls, Call("upcoming", p, now, r))
          /\ upcomingPapers' = Keep(upcomingPapers, p, r)
          /\ pc' = After(r, "upcoming", "done").pc
          /\ idx' = After(r, "upcoming", "done").idx
    /\ UNCHANGED <<papers, now, ticks, calendarGrid, otherVars,
                   todaysPapers, thisWeeksPapers>>

\* The cell i (0 .. 41) of the calendar grid of month (0-based) of year y:
\* date = new Date(y, month, 1); date.setDate(1 - date.getDay() + i)
GridDate(y, month, i) ==
    NewDate(y, month, 1 - getDay(NewDate(y, month, 1)) + i)

GridCells == 42

\* The calendar grid of the JSX that the component function returns after
\* the filters: the cells of the month of selectedDate, laid out by
\* grid-cols-7 in rows of 7
GridStep ==
    /\ pc = "done"
    /\ calendarGrid = <<>>
    /\ LET c == Civil(DayOf(selectedDate))
       IN calendarGrid' =
              [i \in 1 .. GridCells |-> GridDate(c.year, c.month, i - 1)]
    /\ UNCHANGED <<papers, now, pc, idx, ticks, calls, otherVars,
                   todaysPapers, thisWeeksPapers, upcomingPapers>>

Next == Render \/ Tick \/ TodayStep \/ WeekStep \/ UpcomingStep

Spec == Init /\ [][Next]_vars

(***************************************************************************)
(* Two renders one after the other, the first kept for comparison.        *)
(***************************************************************************)
InitTwice == Init /\ Len(papers) = 1

NextTwice == Next \/ Rerender

SpecTwice == InitTwice /\ [][NextTwice]_vars

(***************************************************************************)
(* The render with its calendar grid, for a page mounted at other times.  *)
(***************************************************************************)
\* selectedDate: months that begin on a Monday, Thursday, Friday, Saturday
\* and Sunday, and a last day of a month
SelectedDates ==
    { NewDate(2024, 0, 28), NewDate(2024, 1, 29) + 1, NewDate(2024, 2, 31),
      NewDate(2024, 5, 15), NewDate(2024, 8, 1) }

CalendarPapers ==
    { p \in PaperInputs :
        /\ p.scheduled_date \in { IsoString(2024, 3, 17, 0),
                                  IsoString(2024, 3, 20, 0) }
        /\ p.repeat \in {"absent", "weekly"} }

InitCalendar ==
    /\ papers \in { <<p>> : p \in CalendarPapers }
    /\ now \in FirstClock .. LastClock
    /\ pc = "idle"
    /\ idx = 1
    /\ ticks = 0
    /\ calls = <<>>
    /\ todaysPapers = <<>>
    /\ thisWeeksPapers = <<>>
    /\ upcomingPapers = <<>>
    /\ readingList = [i \in DOMAIN papers |-> ReadingListItem(papers[i])]
    /\ cache = EmptyCache
    /\ selectedDate \in SelectedDates
    /\ calendarGrid = <<>>
    /\ prev = NoPrev
    /\ NoHandlerRuns

NextCalendar == Next \/ GridStep

SpecCalendar == InitCalendar /\ [][NextCalendar]_vars

TypeOK ==
    /\ pc \in {"idle", "today", "week", "upcoming", "done", "failed"}
    /\ idx \in 1 .. Len(papers)
    /\ ticks \in 0 .. MaxTicksPerPass
    /\ Len(calls) <= 3 * Len(papers)

(***************************************************************************)
(* The recurrence contract: occurrences of a schedule entry, on calendar  *)
(* dates (day numbers).  An entry is a paper with a scheduled date; its   *)
(* anchor date is the calendar date of scheduled_date, its recurrence is  *)
(* None when repeat is absent or 'none'.                                   *)
(***************************************************************************)
IsLeapYear(y) == (y % 4 = 0 /\ y % 100 # 0) \/ y % 400 = 0

\* month is a 0-based month index
DaysInMonth(y, month) ==
    IF month = 1 THEN (IF IsLeapYear(y) THEN 29 ELSE 28)
    ELSE IF month \in {3, 5, 8, 10} THEN 30 ELSE 31

Min(a, b) == IF a <= b THEN a ELSE b
Max(a, b) == IF a >= b THEN a ELSE b

AnchorDay(paper) == DayOf(ParseDate(paper.scheduled_date))

Recurrence(paper) ==
    IF paper.repeat \in {"absent", "none"} THEN "None" ELSE paper.repeat

IsEntry(paper) ==
    paper.scheduled_date.kind = "iso" /\ paper.repeat \in Repeats

\* occursOn(entry, targetDate)
OccursOn(paper, d) ==
    LET a == AnchorDay(paper)
        rec == Recurrence(paper)
        c == Civil(d)
    IN CASE rec = "None" -> d = a
         [] rec = "daily" -> d >= a
         [] rec = "weekly" -> d >= a /\ (d - a) % 7 = 0
         [] rec = "monthly" ->
              /\ d >= a
              /\ c.date = Min(Civil(a).date, DaysInMonth(c.year, c.month))

\* occursInWindow(entry, windowStart, windowEndInclusive)
OccursInWindow(paper, windowStart, windowEnd) ==
    \E d \in windowStart .. windowEnd : OccursOn(paper, d)

\* nextOccurrenceOnOrAfter(entry, referenceDate): <<d>>, or <<>> for None.
\* A recurring entry occurs within 31 days of max(anchor, referenceDate).
NextOccurrenceOnOrAfter(paper, ref) ==
    LET from == Max(AnchorDay(paper), ref)
        occs == { d \in from .. from + 31 : OccursOn(paper, d) }
    IN IF occs = {} THEN <<>>
       ELSE <<CHOOSE d \in occs : \A e \in occs : d <= e>>

CallsOf(filter) == { i \in DOMAIN calls : calls[i].filter = filter }

\* C1: a Weekly entry is in the today bucket iff today's calendar date is on
\* or after the anchor's calendar date and their difference in whole
\* calendar days is a multiple of 7, whatever the times of day.
C1_WeeklyToday ==
    \A i \in CallsOf("today") :
        LET c == calls[i]
        IN (IsEntry(c.paper) /\ c.paper.repeat = "weekly")
             => (c.ret <=> OccursOn(c.paper, DayOf(c.clock)))

\* C2: a Daily entry is in the today bucket when today is on or after the
\* anchor date and is not in it when today is before the anchor date.
C2_DailyToday ==
    \A i \in CallsOf("today") :
        LET c == calls[i]
        IN (IsEntry(c.paper) /\ c.paper.repeat = "daily")
             => (c.ret <=> DayOf(c.clock) >= AnchorDay(c.paper))

\* C3: a Monthly entry is in the today bucket iff today is on or after the
\* anchor date and today's day of month is the anchor's day of month
\* clamped to the length of today's month.
C3_MonthlyToday ==
    \A i \in CallsOf("today") :
        LET c == calls[i]
        IN (IsEntry(c.paper) /\ c.paper.repeat = "monthly")
             => (c.ret <=> OccursOn(c.paper, DayOf(c.clock)))

\* C4: an entry whose recurrence is None (repeat absent or 'none') is in
\* the today bucket exactly when today's calendar date is the anchor's
\* calendar date.
C4_NoneToday ==
    \A i \in CallsOf("today") :
        LET c == calls[i]
        IN (IsEntry(c.paper) /\ c.paper.repeat \in {"absent", "none"})
             => (c.ret <=> DayOf(c.clock) = AnchorDay(c.paper))

\* C4 witness: an entry stored with the tag 'none' was classified on its
\* anchor date, and an entry without repeat on another date.
C4_Witness ==
    /\ \E i \in CallsOf("today") :
          /\ IsEntry(calls[i].paper) /\ calls[i].paper.repeat = "none"
          /\ DayOf(calls[i].clock) = AnchorDay(calls[i].paper)
          /\ calls[i].ret
    /\ \E i \in CallsOf("today") :
          /\ IsEntry(calls[i].paper) /\ calls[i].paper.repeat = "absent"
          /\ DayOf(calls[i].clock) # AnchorDay(calls[i].paper)
          /\ ~calls[i].ret

\* the week window of the this-week bucket, in calendar dates
WeekStartDay(clock) == DayOf(startOfWeek(clock))
WeekEndDay(clock) == DayOf(endOfWeek(clock))

\* C5: an entry is in the thisWeek bucket iff it has an occurrence on some
\* calendar date d with weekStart(today) <= d <= weekEnd(today).
C5_ThisWeekIffOccursInWindow ==
    \A i \in CallsOf("week") :
        LET c == calls[i]
        IN IsEntry(c.paper)
             => (c.ret <=> OccursInWindow(c.paper, WeekStartDay(c.clock),
                                          WeekEndDay(c.clock)))

\* C6: an entry is in the upcoming bucket iff it has a next occurrence on or
\* after today: every Daily, Weekly and Monthly entry whatever its anchor,
\* and a None entry iff its anchor date is today or later.
C6_UpcomingIffNextOccurrence ==
    \A i \in CallsOf("upcoming") :
        LET c == calls[i]
        IN IsEntry(c.paper)
             => (c.ret <=>
                   NextOccurrenceOnOrAfter(c.paper, DayOf(c.clock)) # <<>>)

\* the anchor's day of month clamped to the length of the month that lies
\* k months after the month of clock
ClampedDay(paper, clock, k) ==
    LET first == Civil(MakeDay(getFullYear(clock), getMonth(clock) + k, 1))
        dom == Min(Civil(AnchorDay(paper)).date,
                   DaysInMonth(first.year, first.month))
    IN MakeDay(first.year, first.month, dom)

\* C7: the monthly date computed for the week window lies in today's month,
\* and the monthly next occurrence of the upcoming bucket lies in today's
\* month or the following one, on the anchor's day of month clamped to the
\* length of that month; it never rolls into the month after.
C7_MonthlyClamped ==
    \A i \in DOMAIN calls :
        LET c == calls[i]
        IN (c.paper.repeat = "monthly" /\ c.occ # NoOcc)
             => \/ DayOf(c.occ[1]) = ClampedDay(c.paper, c.clock, 0)
                \/ /\ c.filter = "upcoming"
                   /\ DayOf(c.occ[1]) = ClampedDay(c.paper, c.clock, 1)

\* C8: the next-occurrence date computed for a recurring entry in the
\* upcoming bucket is the earliest true occurrence of the entry that is on
\* or after the reference date.
C8_NextOccurrenceMinimal ==
    \A i \in CallsOf("upcoming") :
        LET c == calls[i]
        IN c.occ # NoOcc
             => <<DayOf(c.occ[1])>>
                  = NextOccurrenceOnOrAfter(c.paper, DayOf(c.clock))

\* C9: for a Weekly entry the date compared with the week window is the
\* smallest anchor.date + 7k (k >= 0) on or after max(anchor.date,
\* weekStart), so every Weekly entry anchored on or before weekEnd is in
\* thisWeek.
C9_WeeklyWindowOccurrence ==
    \A i \in CallsOf("week") :
        LET c == calls[i]
        IN (IsEntry(c.paper) /\ c.paper.repeat = "weekly")
             => /\ c.occ # NoOcc
                /\ <<DayOf(c.occ[1])>>
                     = NextOccurrenceOnOrAfter(c.paper, WeekStartDay(c.clock))
                /\ AnchorDay(c.paper) <= WeekEndDay(c.clock) => c.ret

\* the callbacks of the pass that read the clock (new Date()) into today
ClockReads == { i \in DOMAIN calls : IsEntry(calls[i].paper) }

\* C10: all bucket decisions of one classification pass are made against
\* one reference instant: no two callbacks of a pass see different values
\* of today.
C10_OneReferenceInstant ==
    \A i, j \in ClockReads : calls[i].clock = calls[j].clock

Filters == {"today", "week", "upcoming"}

\* the occurrence date by which a member of a bucket is ordered: today, the
\* first occurrence in the week window, the next occurrence from today on
RelevantDate(c) ==
    CASE c.filter = "today" -> <<DayOf(c.clock)>>
      [] c.filter = "week" ->
           NextOccurrenceOnOrAfter(c.paper, WeekStartDay(c.clock))
      [] c.filter = "upcoming" ->
           NextOccurrenceOnOrAfter(c.paper, DayOf(c.clock))

\* C11: within each bucket the entries are in ascending order of their
\* relevant occurrence date, ties broken by id, whatever the order of the
\* input collection.
C11_BucketsOrdered ==
    \A f \in Filters : \A i, j \in CallsOf(f) :
        LET a == calls[i]
            b == calls[j]
        IN (/\ i < j /\ a.ret /\ b.ret
            /\ IsEntry(a.paper) /\ IsEntry(b.paper)
            /\ RelevantDate(a) # <<>> /\ RelevantDate(b) # <<>>)
             => \/ RelevantDate(a)[1] < RelevantDate(b)[1]
                \/ /\ RelevantDate(a)[1] = RelevantDate(b)[1]
                   /\ a.paper.id < b.paper.id

\* the calendar dates of the clock reads of a sequence of callbacks
DatesRead(cs) ==
    { DayOf(cs[i].clock) : i \in { k \in DOMAIN cs : IsEntry(cs[k].paper) } }

\* C12: two classification passes over the same entries with the same
\* reference date yield the same buckets, members and order.
C12_SameDateSameBuckets ==
    (/\ pc = "done" /\ prev # NoPrev
     /\ Cardinality(DatesRead(prev[1]) \cup DatesRead(calls)) <= 1)
      => /\ Len(prev[1]) = Len(calls)
         /\ \A i \in DOMAIN calls :
               /\ calls[i].filter = prev[1][i].filter
               /\ calls[i].paper = prev[1][i].paper
               /\ calls[i].ret = prev[1][i].ret

\* C13: computing the buckets leaves every entry and the shared state
\* (papers, readingList, cache) unchanged.
C13_ClassificationWritesNothing ==
    [][(pc' # pc \/ calls' # calls)
          => /\ papers' = papers
             /\ readingList' = readingList
             /\ cache' = cache]_vars

\* C13 witness: a finished pass over two entries, one with an estimated
\* time, that put entries into buckets.
C13_Witness ==
    /\ pc = "done"
    /\ Len(calls) = 3 * Len(papers)
    /\ Len(papers) = 2
    /\ papers[2].estimated_time # NoTime
    /\ Len(todaysPapers) > 0
    /\ Len(upcomingPapers) > 0

\* C14: an entry with recurrence None whose anchor date is before the
\* reference date has no next occurrence and is not in the upcoming bucket.
C14_PastOneTimeNotUpcoming ==
    \A i \in CallsOf("upcoming") :
        LET c == calls[i]
        IN (/\ IsEntry(c.paper) /\ Recurrence(c.paper) = "None"
            /\ AnchorDay(c.paper) < DayOf(c.clock))
             => /\ ~c.ret
                /\ c.occ = NoOcc
                /\ NextOccurrenceOnOrAfter(c.paper, DayOf(c.clock)) = <<>>

\* C14 witness: a one-time entry anchored earlier in the current week than
\* today was left out of upcoming.
C14_Witness ==
    \E i \in CallsOf("upcoming") :
        /\ IsEntry(calls[i].paper) /\ calls[i].paper.repeat = "absent"
        /\ AnchorDay(calls[i].paper) < DayOf(calls[i].clock)
        /\ AnchorDay(calls[i].paper) >= WeekStartDay(calls[i].clock)
        /\ ~calls[i].ret

\* C15: a Daily entry whose anchor date is on or before the end of the
\* current week window is in the thisWeek bucket.
C15_DailyInThisWeek ==
    \A i \in CallsOf("week") :
        LET c == calls[i]
        IN (/\ IsEntry(c.paper) /\ c.paper.repeat = "daily"
            /\ AnchorDay(c.paper) <= WeekEndDay(c.clock))
             => c.ret

\* C15 witness: a Daily entry anchored weeks before the week window is in
\* thisWeek.
C15_Witness ==
    \E i \in CallsOf("week") :
        /\ IsEntry(calls[i].paper) /\ calls[i].paper.repeat = "daily"
        /\ AnchorDay(calls[i].paper) + 28 < WeekStartDay(calls[i].clock)
        /\ calls[i].ret

\* C16: an entry whose recurrence tag is not one of the four makes every
\* classification operation fail with an error; it is never silently
\* classified.
C16_UnrecognizedTagFails ==
    \A i \in DOMAIN calls :
        (~NoScheduledDate(calls[i].paper) /\ calls[i].paper.repeat \notin Repeats)
          => calls[i].err # NoErr

\* C17: an entry whose scheduled date is malformed makes each of the three
\* bucket computations signal an error; none returns a normal membership.
C17_MalformedDateFailsEachBucket ==
    \A k \in DOMAIN papers :
        IsInvalidDate(papers[k].scheduled_date)
          => /\ \A i \in DOMAIN calls :
                   calls[i].paper = papers[k] => calls[i].err # NoErr
             /\ pc \in {"done", "failed"}
                  => \A f \in Filters : \E i \in CallsOf(f) :
                         calls[i].paper = papers[k] /\ calls[i].err # NoErr

\* an entry without its id and its estimated time
Schedule(paper) == [scheduled_date |-> paper.scheduled_date,
                    repeat |-> paper.repeat]

\* C18: two entries that differ only in estimated_time are classified
\* identically for every reference date.
C18_EstimatedTimeIrrelevant ==
    \A i, j \in DOMAIN calls :
        (/\ calls[i].filter = calls[j].filter
         /\ calls[i].clock = calls[j].clock
         /\ Schedule(calls[i].paper) = Schedule(calls[j].paper))
          => /\ calls[i].ret = calls[j].ret
             /\ calls[i].occ = calls[j].occ
             /\ calls[i].err = calls[j].err

\* C18 witness: an entry without estimated time and its twin with one were
\* both put into the week bucket against the same instant.
C18_Witness ==
    \E i, j \in CallsOf("week") :
        /\ calls[i].clock = calls[j].clock
        /\ Schedule(calls[i].paper) = Schedule(calls[j].paper)
        /\ calls[i].paper.estimated_time = NoTime
        /\ calls[j].paper.estimated_time # NoTime
        /\ calls[i].ret /\ calls[j].ret

\* the Sunday-to-Saturday week of day numbers that contains day d
\* (day 3, 1970-01-04, was a Sunday)
SundayWeek(d) == { e \in d - 6 .. d + 6 : (e + 4) \div 7 = (d + 4) \div 7 }

\* C19: the week window of the thisWeek bucket is the Sunday-to-Saturday
\* week that contains today, and the calendar grid lays out its weeks from
\* the same first day: the cells of its first column are Sundays.
C19_SundayWeekEverywhere ==
    /\ \A i \in CallsOf("week") :
          LET c == calls[i]
          IN (IsEntry(c.paper) /\ c.paper.repeat = "absent")
               => (c.ret <=> AnchorDay(c.paper) \in SundayWeek(DayOf(c.clock)))
    /\ \A i \in DOMAIN calendarGrid :
          /\ (DayOf(calendarGrid[i]) + 4) % 7 = (i - 1) % 7
          /\ i > 1 => DayOf(calendarGrid[i]) = DayOf(calendarGrid[i - 1]) + 1
    /\ calendarGrid # <<>>
         => LET first == NewDate(getFullYear(selectedDate),
                                 getMonth(selectedDate), 1)
            IN calendarGrid[1] <= first /\ first <= calendarGrid[7]

\* C19 witness: the grid is laid out, and an entry anchored on the Sunday
\* of the current week was put into thisWeek on a later day of that week.
C19_Witness ==
    /\ calendarGrid # <<>>
    /\ \E i \in CallsOf("week") :
          /\ calls[i].paper.repeat = "absent"
          /\ (AnchorDay(calls[i].paper) + 4) % 7 = 0
          /\ DayOf(calls[i].clock) > AnchorDay(calls[i].paper)
          /\ calls[i].ret

\* C20: an entry that is in the today bucket is also in the thisWeek bucket
\* of the same reference instant, for every recurrence value.
C20_TodayImpliesThisWeek ==
    \A i \in CallsOf("today") : \A j \in CallsOf("week") :
        (/\ calls[i].paper = calls[j].paper
         /\ calls[i].clock = calls[j].clock
         /\ IsEntry(calls[i].paper)
         /\ calls[i].ret)
          => calls[j].ret

(***************************************************************************)
(* The asynchronous handlers of the page.  A call of a handler is a task: *)
(* it runs up to an await, the request it sent is served at some later    *)
(* time, and at some time after that the task goes on.  tasks keeps the   *)
(* calls in the order they started, the finished ones too.                *)
(***************************************************************************)
MaxTasks == 2

\* the render is not looked at while the handlers run
renderVars == <<now, pc, idx, ticks, calls, todaysPapers, thisWeeksPapers,
                upcomingPapers, selectedDate, calendarGrid, prev, pressed>>

NoRender ==
    /\ now = FirstClock
    /\ pc = "idle"
    /\ idx = 1
    /\ ticks = 0
    /\ calls = <<>>
    /\ todaysPapers = <<>>
    /\ thisWeeksPapers = <<>>
    /\ upcomingPapers = <<>>
    /\ selectedDate = FirstClock
    /\ calendarGrid = <<>>
    /\ prev = NoPrev
    /\ pressed = <<>>

\* What a request can come to: a result with data, a result with an error
\* (and no data), or a rejected promise
Outcomes == {"ok", "error", "throws"}

\* { data, error } of a query
Result(outcome, rows) ==
    [outcome |-> outcome, data |-> IF outcome = "ok" THEN <<rows>> ELSE <<>>]

\* result.data || []
DataOrEmpty(result) == IF result.data = <<>> THEN <<>> ELSE result.data[1]

\* scheduledDate.toISOString()
toISOString(t) ==
    IsoString(getFullYear(t), getMonth(t) + 1, getDate(t), TimeOfDay(t))

\* A task: the handler (op), where it waits (pc), its arguments, the result
\* of its request (res), the results of getReadingList and getPapers (rl,
\* ps), the cached pair preloadData returns (ret); and for the claims, the
\* number of its loadData among the loads started (loadNo) and the papers
\* its loadData handed to setPapers (shown)
NewTask(op, taskPc, paper, args) ==
    [op |-> op, pc |-> taskPc, paper |-> paper, args |-> args,
     refresh |-> FALSE, res |-> <<>>, rl |-> <<>>, ps |-> <<>>,
     ret |-> <<>>, loadNo |-> 0, shown |-> <<>>]

Running == { i \in DOMAIN tasks : tasks[i].pc # "done" }

LoadsStarted == Cardinality({ i \in DOMAIN tasks : tasks[i].loadNo > 0 })

\* cache.set(key, rows); by is the task whose preloadData stored the rows
\* (0: stored before the page was mounted)
CacheEntry(rows, by) == <<[rows |-> rows, by |-> by]>>

\* preloadData up to its await: the cached pair, if it returns one
CachedPair(c, refresh) ==
    IF ~refresh /\ c["PAPERS"] # <<>> /\ c["READING_LIST"] # <<>>
    THEN <<[papers |-> c["PAPERS"][1].rows,
            readingList |-> c["READING_LIST"][1].rows]>>
    ELSE <<>>

\* loadData that does not clear the cache
CacheKept(c, refresh) == c

\* cache.delete of both keys when refresh is true (loadData)
CacheAfterDelete(c, refresh) == IF refresh THEN EmptyCache ELSE c

\* loadData(refresh) up to its await, as the task t: the cache keys are
\* deleted when refresh is true, then preloadData looks into the cache
LoadDataBegins(t, refresh) ==
    [t EXCEPT !.pc = "fetching", !.refresh = refresh,
              !.rl = <<>>, !.ps = <<>>,
              !.ret = CachedPair(CacheAfterDelete(cache, refresh), refresh),
              !.loadNo = LoadsStarted + 1]

\* the reading-list row of a paper in the Map of preloadData: of several
\* rows of one paper the last one stays
RowOf(id, list) ==
    LET js == { j \in DOMAIN list : list[j].paper_id = id }
    IN IF js = {} THEN <<>>
       ELSE <<list[CHOOSE j \in js : \A k \in js : k <= j]>>

\* enhancedPapers of preloadData
EnhancedPapers(rows, list) ==
    [i \in DOMAIN rows |->
        LET item == RowOf(rows[i].id, list)
        IN [id |-> rows[i].id,
            topics |-> rows[i].topics,
            in_reading_list |-> item # <<>>,
            scheduled_date |->
                IF item = <<>> THEN NoDate ELSE item[1].scheduled_date,
            estimated_time |->
                IF item = <<>> THEN NoTime ELSE item[1].estimated_time,
            repeat |-> IF item = <<>> THEN "absent" ELSE item[1].repeat]]

\* loadData(refresh): called by the mount effect (which React runs again
\* on a re-mount of the page) and by whoever refreshes the page data
loadData ==
    /\ Len(tasks) < MaxTasks
    /\ \E refresh \in BOOLEAN :
          /\ tasks' = Append(tasks,
                 LoadDataBegins(NewTask("loadData", "fetching", 0, <<>>),
                                refresh))
          /\ cache' = CacheAfterDelete(cache, refresh)
    /\ isLoading' = TRUE
    /\ UNCHANGED <<papers, readingList, server, paperToDelete, isDeleting,
                   newTopic, dialog, renderVars>>

\* The database answers getReadingList() of the task i
getReadingList ==
    \E i \in DOMAIN tasks :
        /\ tasks[i].pc = "fetching"
        /\ tasks[i].ret = <<>>
        /\ tasks[i].rl = <<>>
        /\ \E outcome \in Outcomes :
              tasks' = [tasks EXCEPT
                           ![i].rl = <<Result(outcome, server.readingList)>>]
        /\ UNCHANGED <<papers, readingList, cache, isLoading, server,
                       paperToDelete, isDeleting, newTopic, dialog, renderVars>>

\* The database answers getPapers() of the task i
getPapers ==
    \E i \in DOMAIN tasks :
        /\ tasks[i].pc = "fetching"
        /\ tasks[i].ret = <<>>
        /\ tasks[i].ps = <<>>
        /\ \E outcome \in Outcomes :
              tasks' = [tasks EXCEPT ![i].ps = <<Result(outcome, server.papers)>>]
        /\ UNCHANGED <<papers, readingList, cache, isLoading, server,
                       paperToDelete, isDeleting, newTopic, dialog, renderVars>>

\* Promise.all of the task t is rejected
Rejected(t) ==
    \/ t.rl # <<>> /\ t.rl[1].outcome = "throws"
    \/ t.ps # <<>> /\ t.ps[1].outcome = "throws"

\* preloadData of the task i returns and loadData goes on to its end; a
\* handler that awaited loadData goes on to its own end (its toast and
\* its finally) in the same turn
loadDataReturns ==
    \E i \in DOMAIN tasks :
        /\ tasks[i].pc = "fetching"
        /\ LET t == tasks[i]
               list == DataOrEmpty(t.rl[1])
               enhancedPapers == EnhancedPapers(DataOrEmpty(t.ps[1]), list)
           IN \/ /\ t.ret # <<>>
                 /\ papers' = t.ret[1].papers
                 /\ readingList' = t.ret[1].readingList
                 /\ cache' = cache
                 /\ tasks' = [tasks EXCEPT ![i].pc = "done",
                                           ![i].shown = <<t.ret[1].papers>>]
              \/ /\ t.ret = <<>>
                 /\ Rejected(t)
                 /\ UNCHANGED <<papers, readingList, cache>>
                 /\ tasks' = [tasks EXCEPT ![i].pc = "done"]
              \/ /\ t.ret = <<>>
                 /\ ~Rejected(t)
                 /\ t.rl # <<>>
                 /\ t.ps # <<>>
                 /\ papers' = enhancedPapers
                 /\ readingList' = list
                 /\ cache' = (IF t.refresh THEN cache
                              ELSE [k \in CacheKeys |->
                                       IF k = "PAPERS"
                                       THEN CacheEntry(enhancedPapers, i)
                                       ELSE CacheEntry(list, i)])
                 /\ tasks' = [tasks EXCEPT ![i].pc = "done",
                                           ![i].shown = <<enhancedPapers>>]
        /\ isLoading' = FALSE
        /\ UNCHANGED <<server, paperToDelete, isDeleting, newTopic, dialog,
                       renderVars>>

\* The handlers below hang on buttons of the page, which the component
\* function does not render while isLoading is true (it returns the
\* skeleton instead)
ButtonsShown == ~isLoading

\* handleAddToList(paper) up to its await
handleAddToList ==
    /\ ButtonsShown
    /\ Len(tasks) < MaxTasks
    /\ \E k \in DOMAIN papers :
          tasks' = Append(tasks,
                      NewTask("handleAddToList", "request", papers[k].id,
                              <<>>))
    /\ isLoading' = TRUE
    /\ UNCHANGED <<papers, readingList, cache, server, paperToDelete,
                   isDeleting, newTopic, dialog, renderVars>>

\* the row that addToReadingList inserts
AddedItem(id) ==
    [paper_id |-> id, scheduled_date |-> NoDate, estimated_time |-> NoTime,
     repeat |-> "absent"]

\* The database serves addToReadingList(paper.id) of the task i
addToReadingList ==
    \E i \in DOMAIN tasks :
        /\ tasks[i].op = "handleAddToList"
        /\ tasks[i].pc = "request"
        /\ \E outcome \in Outcomes :
              /\ tasks' = [tasks EXCEPT ![i].pc = "response",
                                        ![i].res = <<outcome>>]
              /\ server' = (IF outcome = "ok"
                            THEN [server EXCEPT !.readingList =
                                     Append(@, AddedItem(tasks[i].paper))]
                            ELSE server)
        /\ UNCHANGED <<papers, readingList, cache, isLoading, paperToDelete,
                       isDeleting, newTopic, dialog, renderVars>>

\* handleAddToList goes on after addToReadingList: with an error to its
\* catch and finally, otherwise to loadData(true), up to the await there
handleAddToListResumes ==
    \E i \in DOMAIN tasks :
        /\ tasks[i].op = "handleAddToList"
        /\ tasks[i].pc = "response"
        /\ IF tasks[i].res[1] = "ok"
           THEN /\ cache' = EmptyCache
                /\ tasks' = [tasks EXCEPT ![i] = LoadDataBegins(@, TRUE)]
                /\ isLoading' = TRUE
           ELSE /\ cache' = cache
                /\ tasks' = [tasks EXCEPT ![i].pc = "done"]
                /\ isLoading' = FALSE
        /\ UNCHANGED <<papers, readingList, server, paperToDelete, isDeleting,
                       newTopic, dialog, renderVars>>

\* The arguments of handleSchedulePaper: 2024-03-21 12:00, 30 minutes
ScheduleArgs ==
    { [scheduledDate |-> NewDate(2024, 2, 21) + 1,
       estimatedTime |-> <<30>>, repeat |-> r] : r \in {"absent", "weekly"} }

\* handleSchedulePaper(paper, scheduledDate, estimatedTime, repeat) up to
\* its await
handleSchedulePaper ==
    /\ ButtonsShown
    /\ Len(tasks) < MaxTasks
    /\ \E k \in DOMAIN papers, args \in ScheduleArgs :
          tasks' = Append(tasks,
                      NewTask("handleSchedulePaper", "request", papers[k].id,
                              args))
    /\ isLoading' = TRUE
    /\ UNCHANGED <<papers, readingList, cache, server, paperToDelete,
                   isDeleting, newTopic, dialog, renderVars>>

\* the fields handleSchedulePaper sets, of a paper or of a reading-list row
Scheduled(row, args) ==
    [row EXCEPT !.scheduled_date = toISOString(args.scheduledDate),
                !.estimated_time = args.estimatedTime,
                !.repeat = args.repeat]

\* The database serves schedulePaper of the task i: the reading-list row
\* of the paper gets the schedule
schedulePaper ==
    \E i \in DOMAIN tasks :
        /\ tasks[i].op = "handleSchedulePaper"
        /\ tasks[i].pc = "request"
        /\ \E outcome \in Outcomes :
              /\ tasks' = [tasks EXCEPT ![i].pc = "response",
                                        ![i].res = <<outcome>>]
              /\ server' =
                   (IF outcome # "ok" THEN server
                    ELSE IF RowOf(tasks[i].paper, server.readingList) = <<>>
                    THEN [server EXCEPT !.readingList =
                             Append(@, Scheduled(AddedItem(tasks[i].paper),
                                                 tasks[i].args))]
                    ELSE [server EXCEPT !.readingList =
                             [j \in DOMAIN @ |->
                                 IF @[j].paper_id = tasks[i].paper
                                 THEN Scheduled(@[j], tasks[i].args)
                                 ELSE @[j]]])
        /\ UNCHANGED <<papers, readingList, cache, isLoading, paperToDelete,
                       isDeleting, newTopic, dialog, renderVars>>

\* handleSchedulePaper that goes on as after a success whatever the result
handleSchedulePaperResumesAnyway ==
    \E i \in DOMAIN tasks :
        /\ tasks[i].op = "handleSchedulePaper"
        /\ tasks[i].pc = "response"
        /\ papers' = [k \in DOMAIN papers |->
                         IF papers[k].id = tasks[i].paper
                         THEN Scheduled(papers[k], tasks[i].args)
                         ELSE papers[k]]
        /\ cache' = EmptyCache
        /\ tasks' = [tasks EXCEPT ![i] = LoadDataBegins(@, TRUE)]
        /\ isLoading' = TRUE
        /\ UNCHANGED <<readingList, server, paperToDelete, isDeleting,
                       newTopic, dialog, renderVars>>

\* handleSchedulePaper goes on after schedulePaper: with an error to its
\* catch and finally, otherwise to the local update, the cache.delete and
\* loadData(true), up to the await there
handleSchedulePaperResumes ==
    \E i \in DOMAIN tasks :
        /\ tasks[i].op = "handleSchedulePaper"
        /\ tasks[i].pc = "response"
        /\ IF tasks[i].res[1] = "ok"
           THEN /\ papers' = [k \in DOMAIN papers |->
                                 IF papers[k].id = tasks[i].paper
                                 THEN Scheduled(papers[k], tasks[i].args)
                                 ELSE papers[k]]
                /\ cache' = EmptyCache
                /\ tasks' = [tasks EXCEPT ![i] = LoadDataBegins(@, TRUE)]
                /\ isLoading' = TRUE
           ELSE /\ papers' = papers
                /\ cache' = cache
                /\ tasks' = [tasks EXCEPT ![i].pc = "done"]
                /\ isLoading' = FALSE
        /\ UNCHANGED <<readingList, server, paperToDelete, isDeleting,
                       newTopic, dialog, renderVars>>

\* The rows of the database: one paper, in the reading list or not
ServerPapers == <<[id |-> 1, topics |-> <<>>]>>

ServerLists ==
    { <<>>,
      <<[paper_id |-> 1, scheduled_date |-> IsoString(2024, 3, 20, 0),
         estimated_time |-> NoTime, repeat |-> "daily"]>> }

\* What the cache holds when the page is mounted: nothing, or what an
\* earlier visit stored, of which one key can be gone
EarlierCaches ==
    { EmptyCache,
      [k \in CacheKeys |-> CacheEntry(<<>>, 0)],
      [k \in CacheKeys |->
          IF k = "PAPERS" THEN CacheEntry(<<>>, 0) ELSE <<>>] }

\* The page as constructed: useState of the component function, before the
\* mount effect has run
InitLoad ==
    /\ papers = <<>>
    /\ readingList = <<>>
    /\ isLoading = TRUE
    /\ tasks = <<>>
    /\ server \in { [papers |-> ServerPapers, readingList |-> l] :
                      l \in ServerLists }
    /\ cache \in EarlierCaches
    /\ paperToDelete = NoPaper
    /\ isDeleting = FALSE
    /\ newTopic = EmptyString
    /\ dialog = ClosedDialog
    /\ NoRender

NextLoad ==
    \/ loadData
    \/ getReadingList
    \/ getPapers
    \/ loadDataReturns
    \/ handleAddToList
    \/ addToReadingList
    \/ handleAddToListResumes
    \/ handleSchedulePaper
    \/ schedulePaper
    \/ handleSchedulePaperResumes

SpecLoad == InitLoad /\ [][NextLoad]_vars

(***************************************************************************)
(* Claims about the asynchronous handlers.                                *)
(***************************************************************************)
\* the task of the loadData that started last
LastLoad == CHOOSE i \in DOMAIN tasks : tasks[i].loadNo = LoadsStarted

\* C21: isLoading is true whenever a loadData, handleSchedulePaper or
\* handleAddToList call is still in flight (the end of one call never sets
\* it to false while another is pending), and once every call has ended
\* the papers shown are those of the load that started last.
C21_LoadingWhileInFlight ==
    /\ Running # {} => isLoading
    /\ (Running = {} /\ LoadsStarted > 0 /\ tasks[LastLoad].shown # <<>>)
          => papers = tasks[LastLoad].shown[1]

\* What C22 says of one step, for every call i of handleSchedulePaper
C22_Step ==
    \A i \in DOMAIN tasks' :
       tasks'[i].op = "handleSchedulePaper" =>
          \* the call starts: nothing is updated ahead of the result
          /\ i \notin DOMAIN tasks
                => papers' = papers /\ cache' = cache /\ tasks'[i].loadNo = 0
          \* the request is served: the page state stays
          /\ (i \in DOMAIN tasks /\ tasks[i].pc = "request"
                 /\ tasks'[i] # tasks[i])
                => papers' = papers /\ cache' = cache /\ tasks'[i].loadNo = 0
          \* the call goes on after an error
          /\ (i \in DOMAIN tasks /\ tasks[i].pc = "response"
                 /\ tasks[i].res[1] # "ok" /\ tasks'[i] # tasks[i])
                => /\ papers' = papers
                   /\ cache' = cache
                   /\ tasks'[i].pc = "done"
                   /\ tasks'[i].loadNo = 0
                   /\ ~isLoading'
          \* a call that got an error never reloads
          /\ (tasks'[i].res # <<>> /\ tasks'[i].res[1] # "ok")
                => tasks'[i].loadNo = 0

\* C22: when schedulePaper returns an error, handleSchedulePaper leaves
\* papers as it is (no update of scheduled_date, estimated_time, repeat
\* ahead of the result), deletes no cache entry, does not reload and ends
\* with isLoading = false; the local update and the reload come only
\* after a successful result.
C22_ScheduleErrorLeavesState == [][C22_Step]_vars

\* a call of handleSchedulePaper has ended after an error of schedulePaper,
\* in a page that shows papers and has something cached
C22_Witness ==
    \E i \in DOMAIN tasks :
       /\ tasks[i].op = "handleSchedulePaper"
       /\ tasks[i].pc = "done"
       /\ tasks[i].res = <<"error">>
       /\ papers # <<>>
       /\ cache # EmptyCache
       /\ ~isLoading

\* What C23 says of one step, for every call i of loadData (of a handler
\* too): where it begins (up to the await of preloadData) and where
\* preloadData returns
C23_Step ==
    \A i \in DOMAIN tasks' :
       LET begins == /\ tasks'[i].pc = "fetching"
                     /\ i \in DOMAIN tasks => tasks[i].pc # "fetching"
           returns == /\ i \in DOMAIN tasks
                      /\ tasks[i].pc = "fetching"
                      /\ tasks'[i].pc = "done"
       IN /\ (begins /\ tasks'[i].refresh)
                => tasks'[i].ret = <<>> /\ cache' = EmptyCache
          /\ (begins /\ ~tasks'[i].refresh /\ tasks'[i].ret # <<>>)
                => /\ \A k \in CacheKeys : cache[k] # <<>>
                   /\ tasks'[i].ret[1].papers = cache["PAPERS"][1].rows
                   /\ tasks'[i].ret[1].readingList
                         = cache["READING_LIST"][1].rows
          /\ (returns /\ tasks[i].refresh) => cache' = cache
          /\ (returns /\ ~tasks[i].refresh /\ tasks[i].ret = <<>>
                 /\ ~Rejected(tasks[i]))
                => \A k \in CacheKeys :
                      cache'[k] # <<>> /\ cache'[k][1].by = i

\* a key stored by a call of preloadData has the other key beside it,
\* stored by the same call
C23_Pairs ==
    \A k1, k2 \in CacheKeys :
       (cache[k1] # <<>> /\ cache[k1][1].by # 0)
          => cache[k2] # <<>> /\ cache[k2][1].by = cache[k1][1].by

\* C23: preloadData(true) never returns cached values and never writes
\* the cache, and loadData(true) deletes both cache keys before it
\* fetches; preloadData(false) returns the cached pair only when both
\* keys are cached, and otherwise fetches and stores both keys together:
\* the cache never holds one key of a fetch without the other key of the
\* same fetch.
C23_CacheRefreshAndPairs == [][C23_Step]_vars /\ []C23_Pairs

\* a load with refresh has ended and shown its papers, with the cache
\* holding what a load without refresh fetched and stored
C23_Witness ==
    \E i, j \in DOMAIN tasks :
       /\ tasks[j].refresh /\ tasks[j].pc = "done" /\ tasks[j].shown # <<>>
       /\ ~tasks[i].refresh /\ tasks[i].pc = "done" /\ tasks[i].ret = <<>>
       /\ cache["PAPERS"] # <<>> /\ cache["PAPERS"][1].by = i
       /\ cache["PAPERS"][1].rows # <<>>

(***************************************************************************)
(* AddPaperDialog: the form and handleSubmit.                             *)
(***************************************************************************)
MaxSubmits == 2

\* the page is not looked at while the dialog is
pageVars == <<papers, readingList, cache, isLoading, tasks, server,
              paperToDelete, isDeleting, newTopic>>

\* setTitle, setUrl, setActiveTab: the user edits the form
EditForm ==
    /\ dialog.open
    /\ \E title \in {"", "T"}, url \in {"", "u"},
          activeTab \in {"upload", "url"} :
          /\ <<title, url, activeTab>>
                # <<dialog.title, dialog.url, dialog.activeTab>>
          /\ dialog' = [dialog EXCEPT !.title = title, !.url = url,
                                      !.activeTab = activeTab]
    /\ UNCHANGED <<pageVars, renderVars>>

\* disabled of the submit button
SubmitDisabled ==
    \/ dialog.isLoading
    \/ dialog.title = ""
    \/ dialog.activeTab = "upload" /\ ~dialog.file
    \/ dialog.activeTab = "url" /\ dialog.url = ""

\* handleSubmit up to its await of getSession
handleSubmit ==
    /\ dialog.open
    /\ ~SubmitDisabled
    /\ dialog.submits < MaxSubmits
    /\ dialog' = [dialog EXCEPT !.isLoading = TRUE, !.pc = "getSession",
                                !.session = <<>>, !.response = "",
                                !.form = [title |-> dialog.title,
                                          file |-> dialog.file,
                                          url |-> dialog.url],
                                !.submits = @ + 1]
    /\ UNCHANGED <<pageVars, renderVars>>

\* the end of handleSubmit through catch and finally
SubmitFails(d) == [d EXCEPT !.isLoading = FALSE, !.pc = "idle"]

\* the request of handleSubmit: the Authorization header and the form data
PostRequest(d, token) ==
    [authorization |-> token, title |-> d.form.title, file |-> d.form.file,
     url |-> d.form.url]

\* getSession returns and handleSubmit sends the form whatever the session
getSessionReturnsUnchecked ==
    /\ dialog.pc = "getSession"
    /\ \E session \in {<<>>, <<"token">>, <<"throws">>} :
          dialog' = [dialog EXCEPT
                        !.session = session,
                        !.posted = Append(@, PostRequest(dialog, session)),
                        !.pc = "fetch"]
    /\ UNCHANGED <<pageVars, renderVars>>

\* getSession returns (a session with its access token, no session, or a
\* rejected promise) and handleSubmit goes on: to its end, or to the POST
getSessionReturns ==
    /\ dialog.pc = "getSession"
    /\ \E session \in {<<>>, <<"token">>, <<"throws">>} :
          dialog' = IF session # <<"token">>
                    THEN SubmitFails(dialog)
                    ELSE [dialog EXCEPT
                             !.session = session,
                             !.posted =
                                 Append(@, PostRequest(dialog, session)),
                             !.pc = "fetch"]
    /\ UNCHANGED <<pageVars, renderVars>>

\* What fetch and response.json() can come to: a response with ok status,
\* one without, a body that is not JSON, a rejected fetch
Responses == {"ok", "not ok", "not json", "throws"}

\* the response arrives and handleSubmit goes on to its end
fetchReturns ==
    /\ dialog.pc = "fetch"
    /\ \E response \in Responses :
          dialog' = IF response = "ok"
                    THEN [dialog EXCEPT !.response = response,
                                        !.open = FALSE,
                                        !.closed = @ + 1,
                                        !.refreshed = @ + 1,
                                        !.isLoading = FALSE,
                                        !.pc = "idle"]
                    ELSE SubmitFails([dialog EXCEPT !.response = response])
    /\ UNCHANGED <<pageVars, renderVars>>

\* The page opens the dialog again (the open prop)
OpenDialog ==
    /\ ~dialog.open
    /\ dialog' = [dialog EXCEPT !.open = TRUE]
    /\ UNCHANGED <<pageVars, renderVars>>

\* The dialog as the page first shows it: open, with a file chosen or not
InitDialog ==
    /\ dialog \in { [ClosedDialog EXCEPT !.open = TRUE, !.file = f] :
                      f \in BOOLEAN }
    /\ papers = <<>>
    /\ readingList = <<>>
    /\ cache = EmptyCache
    /\ isLoading = FALSE
    /\ tasks = <<>>
    /\ server = [papers |-> <<>>, readingList |-> <<>>]
    /\ paperToDelete = NoPaper
    /\ isDeleting = FALSE
    /\ newTopic = EmptyString
    /\ NoRender

NextDialog ==
    \/ EditForm
    \/ handleSubmit
    \/ getSessionReturns
    \/ fetchReturns
    \/ OpenDialog

SpecDialog == InitDialog /\ [][NextDialog]_vars

\* the fields of the form
FormOf(d) == <<d.title, d.file, d.url, d.activeTab>>

\* What C24 says of one step of handleSubmit
C24_Step ==
    LET goesOn == dialog.pc # "idle" /\ dialog'.pc # dialog.pc
        ends == dialog.pc # "idle" /\ dialog'.pc = "idle"
        succeeds == dialog.pc = "fetch" /\ dialog'.response = "ok"
    IN \* the POST goes out after a session with an access token came
       /\ dialog'.posted # dialog.posted
             => /\ dialog.pc = "getSession"
                /\ dialog'.session = <<"token">>
                /\ dialog'.posted =
                      Append(dialog.posted, PostRequest(dialog, <<"token">>))
       \* closing and refreshing come after a response with ok status
       /\ (dialog'.closed # dialog.closed
              \/ dialog'.refreshed # dialog.refreshed)
             => succeeds
       /\ (goesOn /\ succeeds)
             => ~dialog'.open /\ dialog'.closed = dialog.closed + 1
                   /\ dialog'.refreshed = dialog.refreshed + 1
       \* otherwise the dialog stays as it is, with its fields
       /\ (goesOn /\ ~succeeds)
             => dialog'.open = dialog.open /\ FormOf(dialog') = FormOf(dialog)
       \* in every case isLoading ends false
       /\ ends => ~dialog'.isLoading

\* C24: handleSubmit sends the POST to /api/papers only after it got a
\* session with an access token; it closes the dialog and refreshes the
\* router only after a response with ok status; without a session, with a
\* response that is not ok or with a thrown error the dialog stays open
\* and the form keeps its values; in every case isLoading ends false.
C24_SubmitOrder == [][C24_Step]_vars

\* a handleSubmit has ended without a session and another with a response
\* that was not ok, the dialog open with its form filled
C24_Witness ==
    /\ dialog.pc = "idle"
    /\ dialog.submits = 2
    /\ Len(dialog.posted) = 1
    /\ dialog.response = "not ok"
    /\ dialog.open
    /\ dialog.title = "T"
    /\ ~dialog.isLoading

(***************************************************************************)
(* The calendar view: the buttons for the previous and the next month.    *)
(***************************************************************************)
MaxPresses == 2

\* the year and month that the calendar header shows:
\* format(selectedDate, 'MMMM yyyy'), as a count of months
DisplayedMonth(t) == getFullYear(t) * 12 + getMonth(t)

\* onClick of the button for the previous month; pressed keeps the button
\* and the selectedDate it was pressed at
PreviousMonth ==
    /\ Len(pressed) < MaxPresses
    /\ selectedDate' = AddMonths(selectedDate, 0 - 1)
    /\ pressed' = Append(pressed, [button |-> "previous",
                                   from |-> selectedDate])
    /\ UNCHANGED <<papers, now, pc, idx, ticks, calls, todaysPapers,
                   thisWeeksPapers, upcomingPapers, readingList, cache,
                   calendarGrid, prev, handlerVars>>

\* onClick of the button for the next month
NextMonth ==
    /\ Len(pressed) < MaxPresses
    /\ selectedDate' = AddMonths(selectedDate, 1)
    /\ pressed' = Append(pressed, [button |-> "next", from |-> selectedDate])
    /\ UNCHANGED <<papers, now, pc, idx, ticks, calls, todaysPapers,
                   thisWeeksPapers, upcomingPapers, readingList, cache,
                   calendarGrid, prev, handlerVars>>

\* selectedDate when the calendar is looked at: any time of 2023-12-01 ..
\* 2025-01-31 (the page was mounted then, or a day was picked)
FirstSelected == NewDate(2023, 11, 1)
LastSelected == NewDate(2025, 1, 1) - 1

InitMonths ==
    /\ papers \in { <<p>> : p \in CalendarPapers }
    /\ now = FirstClock
    /\ pc = "idle"
    /\ idx = 1
    /\ ticks = 0
    /\ calls = <<>>
    /\ todaysPapers = <<>>
    /\ thisWeeksPapers = <<>>
    /\ upcomingPapers = <<>>
    /\ readingList = [i \in DOMAIN papers |-> ReadingListItem(papers[i])]
    /\ cache = EmptyCache
    /\ selectedDate \in FirstSelected .. LastSelected
    /\ calendarGrid = <<>>
    /\ prev = NoPrev
    /\ NoHandlerRuns

NextMonths == PreviousMonth \/ NextMonth

SpecMonths == InitMonths /\ [][NextMonths]_vars

\* selectedDate after the k-th button pressed
After_k(k) == IF k < Len(pressed) THEN pressed[k + 1].from ELSE selectedDate

\* C25: the button for the previous (next) month changes the displayed
\* month of selectedDate to exactly the month before (after), for every
\* selectedDate, one on the 29th, 30th or 31st too; next and then previous
\* come back to the month they started from.
C25_MonthButtons ==
    /\ \A k \in DOMAIN pressed :
          DisplayedMonth(After_k(k)) =
             DisplayedMonth(pressed[k].from)
                + (IF pressed[k].button = "next" THEN 1 ELSE 0 - 1)
    /\ \A k \in DOMAIN pressed :
          (k < Len(pressed) /\ pressed[k].button = "next"
              /\ pressed[k + 1].button = "previous")
             => DisplayedMonth(After_k(k + 1))
                   = DisplayedMonth(pressed[k].from)

(***************************************************************************)
(* The topics of a paper: handleAddTopic and handleRemoveTopic.           *)
(***************************************************************************)
RECURSIVE TrimStart(_)
TrimStart(str) ==
    IF str # <<>> /\ Head(str) = " " THEN TrimStart(Tail(str)) ELSE str

RECURSIVE TrimEnd(_)
TrimEnd(str) ==
    IF str # <<>> /\ str[Len(str)] = " "
    THEN TrimEnd(SubSeq(str, 1, Len(str) - 1))
    ELSE str

\* newTopic.trim()
Trim(str) == TrimEnd(TrimStart(str))

\* What the user types into the topic input: blanks, "a", " b "
TopicInputs == { <<" ">>, <<"a">>, <<" ", "b", " ">> }

\* onChange of the topic input
setNewTopic ==
    /\ \E text \in TopicInputs :
          /\ text # newTopic
          /\ newTopic' = text
    /\ UNCHANGED <<papers, readingList, cache, isLoading, tasks, server,
                   paperToDelete, isDeleting, dialog, renderVars>>

\* handleAddTopic(paperId) up to its await: the task keeps updatedTopics
\* and the paper sent to updatePaper, both made from the papers of the
\* render the handler was called in
handleAddTopic ==
    /\ Trim(newTopic) # EmptyString
    /\ Len(tasks) < MaxTasks
    /\ \E k \in DOMAIN papers :
          LET paperToUpdate == papers[k]
              updatedTopics == Append(paperToUpdate.topics, Trim(newTopic))
          IN tasks' = Append(tasks,
                         NewTask("handleAddTopic", "request",
                                 paperToUpdate.id,
                                 [topic |-> Trim(newTopic),
                                  updatedTopics |-> updatedTopics]))
    /\ UNCHANGED <<papers, readingList, cache, isLoading, server,
                   paperToDelete, isDeleting, newTopic, dialog, renderVars>>

\* t !== topicToRemove filter of the topics
RECURSIVE Without(_, _)
Without(topics, topicToRemove) ==
    IF topics = <<>> THEN <<>>
    ELSE IF Head(topics) = topicToRemove
         THEN Without(Tail(topics), topicToRemove)
         ELSE <<Head(topics)>> \o Without(Tail(topics), topicToRemove)

\* handleRemoveTopic(paperId, topicToRemove) up to its await
handleRemoveTopic ==
    /\ Len(tasks) < MaxTasks
    /\ \E k \in DOMAIN papers :
          \E n \in DOMAIN papers[k].topics :
             LET paperToUpdate == papers[k]
                 topicToRemove == paperToUpdate.topics[n]
                 updatedTopics == Without(paperToUpdate.topics, topicToRemove)
             IN tasks' = Append(tasks,
                            NewTask("handleRemoveTopic", "request",
                                    paperToUpdate.id,
                                    [topic |-> topicToRemove,
                                     updatedTopics |-> updatedTopics]))
    /\ UNCHANGED <<papers, readingList, cache, isLoading, server,
                   paperToDelete, isDeleting, newTopic, dialog, renderVars>>

\* topics: updatedTopics, of the paper with the id
WithTopics(rows, id, updatedTopics) ==
    [k \in DOMAIN rows |->
        IF rows[k].id = id THEN [rows[k] EXCEPT !.topics = updatedTopics]
        ELSE rows[k]]

\* The database serves updatePaper of the task i: the row of the paper
\* gets the topics sent
updatePaper ==
    \E i \in DOMAIN tasks :
        /\ tasks[i].op \in {"handleAddTopic", "handleRemoveTopic"}
        /\ tasks[i].pc = "request"
        /\ \E outcome \in Outcomes :
              /\ tasks' = [tasks EXCEPT ![i].pc = "response",
                                        ![i].res = <<outcome>>]
              /\ server' =
                   (IF outcome = "ok"
                    THEN [server EXCEPT !.papers =
                             WithTopics(@, tasks[i].paper,
                                        tasks[i].args.updatedTopics)]
                    ELSE server)
        /\ UNCHANGED <<papers, readingList, cache, isLoading, paperToDelete,
                       isDeleting, newTopic, dialog, renderVars>>

\* handleAddTopic or handleRemoveTopic goes on after updatePaper: to its
\* catch when updatePaper threw, otherwise (the result is not looked at)
\* to setPapers and, for handleAddTopic, setNewTopic("")
TopicHandlerResumes ==
    \E i \in DOMAIN tasks :
        /\ tasks[i].op \in {"handleAddTopic", "handleRemoveTopic"}
        /\ tasks[i].pc = "response"
        /\ tasks' = [tasks EXCEPT ![i].pc = "done"]
        /\ IF tasks[i].res[1] = "throws"
           THEN UNCHANGED <<papers, newTopic>>
           ELSE /\ papers' = WithTopics(papers, tasks[i].paper,
                                        tasks[i].args.updatedTopics)
                /\ newTopic' = (IF tasks[i].op = "handleAddTopic"
                                THEN EmptyString ELSE newTopic)
        /\ UNCHANGED <<readingList, cache, isLoading, server, paperToDelete,
                       isDeleting, dialog, renderVars>>

\* The page with its data loaded: one paper that has no topic yet
InitTopics ==
    /\ server = [papers |-> ServerPapers, readingList |-> <<>>]
    /\ papers = EnhancedPapers(server.papers, server.readingList)
    /\ readingList = server.readingList
    /\ cache = EmptyCache
    /\ isLoading = FALSE
    /\ tasks = <<>>
    /\ paperToDelete = NoPaper
    /\ isDeleting = FALSE
    /\ newTopic = EmptyString
    /\ dialog = ClosedDialog
    /\ NoRender

NextTopics ==
    \/ setNewTopic
    \/ handleAddTopic
    \/ handleRemoveTopic
    \/ updatePaper
    \/ TopicHandlerResumes

SpecTopics == InitTopics /\ [][NextTopics]_vars

\* the topics of a sequence
TopicsOf(topics) == { topics[n] : n \in DOMAIN topics }

\* C26: after two calls of handleAddTopic for one paper with different
\* topics have both ended with success, in whatever order their steps
\* came, the topics of the paper in the page and in the last update sent
\* to the database hold both topics.
C26_NoTopicLost ==
    \A i, j \in DOMAIN tasks :
       (/\ i < j
        /\ \A n \in DOMAIN tasks : tasks[n].op = "handleAddTopic"
        /\ tasks[i].paper = tasks[j].paper
        /\ tasks[i].args.topic # tasks[j].args.topic
        /\ tasks[i].pc = "done" /\ tasks[i].res = <<"ok">>
        /\ tasks[j].pc = "done" /\ tasks[j].res = <<"ok">>
        /\ Running = {})
          => /\ \A k \in DOMAIN papers :
                   papers[k].id = tasks[i].paper
                      => {tasks[i].args.topic, tasks[j].args.topic}
                            \subseteq TopicsOf(papers[k].topics)
             /\ {tasks[i].args.topic, tasks[j].args.topic}
                   \subseteq TopicsOf(tasks[Len(tasks)].args.updatedTopics)

(***************************************************************************)
(* Deleting a paper: handleDeletePaper and handleConfirmDelete.           *)
(***************************************************************************)
\* handleDeletePaper(paper): the paper is kept for the confirmation
handleDeletePaper ==
    /\ ButtonsShown
    /\ \E k \in DOMAIN papers :
          /\ paperToDelete # <<papers[k]>>
          /\ paperToDelete' = <<papers[k]>>
    /\ UNCHANGED <<papers, readingList, cache, isLoading, tasks, server,
                   isDeleting, newTopic, dialog, renderVars>>

\* onOpenChange(false) of DeletePaperDialog: the user closes it
CancelDelete ==
    /\ paperToDelete # NoPaper
    /\ paperToDelete' = NoPaper
    /\ UNCHANGED <<papers, readingList, cache, isLoading, tasks, server,
                   isDeleting, newTopic, dialog, renderVars>>

\* handleConfirmDelete up to its await of deletePaper, or to its return
\* when paperToDelete is null (tasks keeps that call as one that ended
\* with nothing sent)
handleConfirmDelete ==
    /\ Len(tasks) < MaxTasks
    /\ IF paperToDelete = NoPaper
       THEN /\ tasks' = Append(tasks,
                           NewTask("handleConfirmDelete", "done", 0, <<>>))
            /\ isDeleting' = isDeleting
       ELSE /\ tasks' = Append(tasks,
                           NewTask("handleConfirmDelete", "request",
                                   paperToDelete[1].id, <<>>))
            /\ isDeleting' = TRUE
    /\ UNCHANGED <<papers, readingList, cache, isLoading, server,
                   paperToDelete, newTopic, dialog, renderVars>>

\* filter(p => p.id !== id) and filter(item => item.paper_id !== id)
RECURSIVE Removed(_, _, _)
Removed(rows, key, id) ==
    IF rows = <<>> THEN <<>>
    ELSE IF Head(rows)[key] = id THEN Removed(Tail(rows), key, id)
         ELSE <<Head(rows)>> \o Removed(Tail(rows), key, id)

\* The database serves deletePaper of the task i
deletePaper ==
    \E i \in DOMAIN tasks :
        /\ tasks[i].op = "handleConfirmDelete"
        /\ tasks[i].pc = "request"
        /\ \E outcome \in Outcomes :
              /\ tasks' = [tasks EXCEPT ![i].pc = "response",
                                        ![i].res = <<outcome>>]
              /\ server' =
                   (IF outcome = "ok"
                    THEN [papers |->
                             Removed(server.papers, "id", tasks[i].paper),
                          readingList |->
                             Removed(server.readingList, "paper_id",
                                     tasks[i].paper)]
                    ELSE server)
        /\ UNCHANGED <<papers, readingList, cache, isLoading, paperToDelete,
                       isDeleting, newTopic, dialog, renderVars>>

\* handleConfirmDelete that removes the paper from the page whatever
\* deletePaper returned
handleConfirmDeleteResumesAnyway ==
    \E i \in DOMAIN tasks :
        /\ tasks[i].op = "handleConfirmDelete"
        /\ tasks[i].pc = "response"
        /\ tasks' = [tasks EXCEPT ![i].pc = "done"]
        /\ papers' = Removed(papers, "id", tasks[i].paper)
        /\ readingList' = Removed(readingList, "paper_id", tasks[i].paper)
        /\ cache' = EmptyCache
        /\ paperToDelete' = NoPaper
        /\ isDeleting' = FALSE
        /\ UNCHANGED <<isLoading, server, newTopic, dialog, renderVars>>

\* handleConfirmDelete goes on after deletePaper: with an error to its
\* catch, otherwise to the update of the page and the cache.delete
handleConfirmDeleteResumes ==
    \E i \in DOMAIN tasks :
        /\ tasks[i].op = "handleConfirmDelete"
        /\ tasks[i].pc = "response"
        /\ tasks' = [tasks EXCEPT ![i].pc = "done"]
        /\ IF tasks[i].res[1] = "ok"
           THEN /\ papers' = Removed(papers, "id", tasks[i].paper)
                /\ readingList' =
                      Removed(readingList, "paper_id", tasks[i].paper)
                /\ cache' = EmptyCache
           ELSE UNCHANGED <<papers, readingList, cache>>
        /\ paperToDelete' = NoPaper
        /\ isDeleting' = FALSE
        /\ UNCHANGED <<isLoading, server, newTopic, dialog, renderVars>>

\* The page with its data loaded: two papers, the first in the reading
\* list, and a cache that is empty or holds what another page stored
InitDelete ==
    /\ server = [papers |-> <<[id |-> 1, topics |-> <<>>],
                              [id |-> 2, topics |-> <<>>]>>,
                 readingList |-> <<AddedItem(1)>>]
    /\ papers = EnhancedPapers(server.papers, server.readingList)
    /\ readingList = server.readingList
    /\ cache \in { EmptyCache, [k \in CacheKeys |-> CacheEntry(<<>>, 0)] }
    /\ isLoading = FALSE
    /\ tasks = <<>>
    /\ paperToDelete = NoPaper
    /\ isDeleting = FALSE
    /\ newTopic = EmptyString
    /\ dialog = ClosedDialog
    /\ NoRender

NextDelete ==
    \/ handleDeletePaper
    \/ CancelDelete
    \/ handleConfirmDelete
    \/ deletePaper
    \/ handleConfirmDeleteResumes

SpecDelete == InitDelete /\ [][NextDelete]_vars

\* the ids of the papers shown and of the papers in the reading list
PaperIds == { papers[k].id : k \in DOMAIN papers }
ListIds == { readingList[k].paper_id : k \in DOMAIN readingList }

\* What C27 says of one step, for every call i of handleConfirmDelete
C27_Step ==
    \A i \in DOMAIN tasks' :
       tasks'[i].op = "handleConfirmDelete" =>
          \* called with paperToDelete = null
          /\ (i \notin DOMAIN tasks /\ paperToDelete = NoPaper)
                => /\ tasks'[i].pc = "done"
                   /\ UNCHANGED <<papers, readingList, cache, server,
                                  paperToDelete, isDeleting>>
          \* the call ends
          /\ (i \in DOMAIN tasks /\ tasks[i].pc = "response"
                 /\ tasks'[i].pc = "done")
                => /\ paperToDelete' = NoPaper
                   /\ isDeleting' = FALSE
                   /\ IF tasks[i].res = <<"ok">>
                      THEN /\ tasks[i].paper \notin PaperIds'
                           /\ tasks[i].paper \notin ListIds'
                           /\ PaperIds' = PaperIds \ {tasks[i].paper}
                           /\ cache' = EmptyCache
                      ELSE UNCHANGED <<papers, readingList, cache>>

\* C27: handleConfirmDelete does nothing when paperToDelete is null;
\* otherwise, once it ends, paperToDelete = null and isDeleting = false
\* whether deletePaper succeeded or failed; on success the paper is gone
\* from papers and from readingList and both cache keys are deleted, on
\* failure papers, readingList and the cache are as they were.
C27_ConfirmDelete == [][C27_Step]_vars

\* a call has ended after an error with its paper still shown and the
\* cache still filled, and a call with paperToDelete = null has returned
C27_Witness ==
    \E i, j \in DOMAIN tasks :
       /\ tasks[i].op = "handleConfirmDelete"
       /\ tasks[i].pc = "done"
       /\ tasks[i].res = <<"error">>
       /\ tasks[i].paper \in PaperIds
       /\ cache # EmptyCache
       /\ tasks[j].op = "handleConfirmDelete"
       /\ tasks[j].paper = 0
       /\ paperToDelete = NoPaper
       /\ ~isDeleting

====
